---- MODULE Spec2Model ----
(***************************************************************************)
(* Model of the strategy selector createMotionValueAnimation               *)
(* (packages/framer-motion/src/animation/index.ts)                         *)
(*                                                                         *)
(* Conventions                                                             *)
(*  - A JavaScript object is a function from the names of the fields it    *)
(*    carries to their values; an absent field is a name outside DOMAIN.   *)
(*  - A quantity in seconds is held in fixed point as a whole number of    *)
(*    tenths of a second (0.2 s is 2); milliseconds are whole numbers.     *)
(*  - The literal `false` of the `type` field is the string TypeFalse.     *)
(*  - A callback is known by its name; calling one appends an event to the *)
(*    log of the run that called it.                                       *)
(*                                                                         *)
(* and of the range interpolator transform (src/utils/transform.ts), whose *)
(* arguments are tagged values: a number, an array, an object, undefined.  *)
(***************************************************************************)
EXTENDS Integers, Sequences, FiniteSets, TLC

VARIABLES
    value,                  \* the MotionValue: current, velocity, owner
    instantAnimationState,  \* instantAnimationState.current
    handle,                 \* the StartAnimation closures created so far (at most one)
    runs,                   \* one record per invocation of the handle
    call                    \* the latest call of transform and what it returned

vars == <<value, instantAnimationState, handle, runs, call>>

(***************************************************************************)
(* Bounds of the model.                                                    *)
(***************************************************************************)
MaxFields == 2      \* fields present in a value-specific transition entry
MaxTicks == 1       \* update ticks a ticked strategy reports in one run
MaxValue == 2       \* the target; a strategy reports values in 1..MaxValue
MaxStops == 2       \* calls of stop handles
MaxRuns == 2        \* invocations of one handle, where it is invoked again

(***************************************************************************)
(* Objects.                                                                *)
(***************************************************************************)
EmptyRecord == [k \in {} |-> 0]

Has(r, f) == f \in DOMAIN r

\* { ...a, ...b }: the fields of b win.
Spread(a, b) ==
    [k \in DOMAIN a \cup DOMAIN b |-> IF k \in DOMAIN b THEN b[k] ELSE a[k]]

\* JavaScript truthiness of a numeric field that may be absent.
Truthy(r, f) == Has(r, f) /\ r[f] # 0

TypeFalse == "false"

ValueNames == {"x", "opacity"}

AcceleratedValuesWithOpacity == {"opacity"}

\* const acceleratedValues = new Set<string>([])
acceleratedValues == {}

(***************************************************************************)
(* Inputs: the transitions a caller may pass.  A transition carries root   *)
(* fields and, under the name of a value, a value-specific entry.          *)
(***************************************************************************)
RootFields == {"delay", "elapsed", "duration"}

EntryFields ==
    {"delay", "type", "duration", "repeat", "repeatDelay", "onUpdate", "onComplete"}

FieldValues(scope, f) ==
    IF scope = "root"
    THEN CASE f = "delay" -> {2}
           [] f = "elapsed" -> {500}
           [] f = "duration" -> {8}
    ELSE CASE f = "delay" -> {0, 3}
           [] f = "type" -> {TypeFalse, "inertia", "tween"}
           [] f = "duration" -> {3}
           [] f = "repeat" -> {2}
           [] f = "repeatDelay" -> {5}
           [] f = "onUpdate" -> {"userOnUpdate"}
           [] f = "onComplete" -> {"userOnComplete"}

Extend(r, f, v) == [k \in DOMAIN r \cup {f} |-> IF k = f THEN v ELSE r[k]]

RECURSIVE Records(_, _)
Records(scope, FS) ==
    IF FS = {} THEN {EmptyRecord}
    ELSE LET f == CHOOSE x \in FS : TRUE
             rest == Records(scope, FS \ {f})
         IN rest \cup {Extend(r, f, v) : r \in rest, v \in FieldValues(scope, f)}

RootTransitions == Records("root", RootFields)

Entries ==
    {e \in Records("entry", EntryFields) :
        Cardinality(DOMAIN e) >= 1 /\ Cardinality(DOMAIN e) <= MaxFields}

\* The transitions passed for a value named n: no entry, or an entry under n.
Transitions(n) ==
    {[root |-> r, entries |-> EmptyRecord] : r \in RootTransitions}
    \cup {[root |-> r, entries |-> (n :> e)] : r \in RootTransitions, e \in Entries}

Owners ==
    {[present |-> FALSE, onUpdate |-> FALSE],
     [present |-> TRUE, onUpdate |-> FALSE],
     [present |-> TRUE, onUpdate |-> TRUE]}

(***************************************************************************)
(* Collaborators that live outside the two source files.                   *)
(***************************************************************************)
\* ms = s * 1000, with s held in tenths of a second.
secondsToMilliseconds(s) == s * 100

\* The entry given for the value, when there is one, stands for the whole
\* transition ("most transition values are currently completely overwritten
\* by value-specific transitions"); without one the root transition is used.
getValueTransition(transition, valueName) ==
    IF Has(transition.entries, valueName)
    THEN transition.entries[valueName]
    ELSE transition.root

\* A single target expands to [current, target].
getKeyframes(val, valueName, target, valueTransition) == <<val.current, target>>

\* Defined: duration, easing or type is given.
isTransitionDefined(valueTransition) ==
    DOMAIN valueTransition \cap {"type", "duration", "ease"} # {}

\* Value-name-specific default curve.
getDefaultTransition(valueName, options) ==
    IF valueName = "opacity"
    THEN ("type" :> "tween") @@ ("ease" :> "linear") @@ ("duration" :> 3)
    ELSE ("type" :> "spring")

\* MotionValue.set: the velocity is derived from the last change.
ValueSet(val, v) ==
    [val EXCEPT !.current = v, !.velocity = v - val.current]

(***************************************************************************)
(* createMotionValueAnimation, step by step.                               *)
(***************************************************************************)
DelayOfValueOnly(valueTransition, transition) ==
    IF Truthy(valueTransition, "delay") THEN valueTransition["delay"] ELSE 0

\* const delay = valueTransition.delay || transition.delay || 0
Delay(valueTransition, transition) ==
    IF Truthy(valueTransition, "delay") THEN valueTransition["delay"]
    ELSE IF Truthy(transition.root, "delay") THEN transition.root["delay"]
    ELSE 0

\* let { elapsed = 0 } = transition; elapsed = elapsed - secondsToMilliseconds(delay)
Elapsed(transition, delay) ==
    (IF Has(transition.root, "elapsed") THEN transition.root["elapsed"] ELSE 0)
        - secondsToMilliseconds(delay)

\* let options = { keyframes, velocity, elapsed, onUpdate, onComplete, ...valueTransition }
BaseOptions(keyframes, velocity, elapsed, valueTransition) ==
    Spread(("keyframes" :> keyframes) @@ ("velocity" :> velocity)
               @@ ("elapsed" :> elapsed)
               @@ ("onUpdate" :> "defaultOnUpdate")
               @@ ("onComplete" :> "defaultOnComplete"),
           valueTransition)

canAnimate == TRUE

IsInstantWithoutType(instant, valueTransition) == ~canAnimate \/ instant

\* !canAnimate || instantAnimationState.current || valueTransition.type === false
IsInstant(instant, valueTransition) ==
    \/ ~canAnimate
    \/ instant
    \/ (Has(valueTransition, "type") /\ valueTransition["type"] = TypeFalse)

\* valueTransition.type === "inertia"
IsInertia(valueTransition) ==
    Has(valueTransition, "type") /\ valueTransition["type"] = "inertia"

WithDefaultsAlways(valueName, options, valueTransition) ==
    Spread(options, getDefaultTransition(valueName, options))

\* if (!isTransitionDefined(valueTransition)) options = { ...options, ...getDefaultTransition(...) }
WithDefaults(valueName, options, valueTransition) ==
    IF ~isTransitionDefined(valueTransition)
    THEN Spread(options, getDefaultTransition(valueName, options))
    ELSE options

\* if (options.duration) options.duration = secondsToMilliseconds(options.duration)
ConvertDuration(options) ==
    IF Truthy(options, "duration")
    THEN [options EXCEPT !["duration"] = secondsToMilliseconds(@)]
    ELSE options

\* if (options.repeatDelay) options.repeatDelay = secondsToMilliseconds(options.repeatDelay)
ConvertRepeatDelay(options) ==
    IF Truthy(options, "repeatDelay")
    THEN [options EXCEPT !["repeatDelay"] = secondsToMilliseconds(@)]
    ELSE options

CanAccelerateAnyName(valueName, waapi, val, options) ==
    /\ waapi
    /\ val.owner.present
    /\ ~val.owner.onUpdate
    /\ ~Truthy(options, "repeat")

\* acceleratedValues.has(valueName) && supports.waapi() && value.owner &&
\* !value.owner.getProps().onUpdate && !options.repeat
canAccelerateAnimation(valueName, waapi, val, options) ==
    /\ valueName \in acceleratedValues
    /\ waapi
    /\ val.owner.present
    /\ ~val.owner.onUpdate
    /\ ~Truthy(options, "repeat")

(***************************************************************************)
(* Callbacks.  Calling one yields the events it causes, in order.          *)
(***************************************************************************)
Ev(op, arg) == [op |-> op, arg |-> arg]

\* (v) => { value.set(v); valueTransition.onUpdate && valueTransition.onUpdate(v) }
DefaultOnUpdate(v, valueTransition) ==
    <<Ev("value.set", v)>>
        \o (IF Has(valueTransition, "onUpdate")
            THEN <<Ev(valueTransition["onUpdate"], v)>> ELSE <<>>)

\* () => { onComplete(); valueTransition.onComplete && valueTransition.onComplete() }
DefaultOnComplete(valueTransition) ==
    <<Ev("callerOnComplete", 0)>>
        \o (IF Has(valueTransition, "onComplete")
            THEN <<Ev(valueTransition["onComplete"], 0)>> ELSE <<>>)

\* A strategy calling options.onUpdate(v): whichever callback the options hold.
CallOnUpdate(options, v, valueTransition) ==
    IF options["onUpdate"] = "defaultOnUpdate"
    THEN DefaultOnUpdate(v, valueTransition)
    ELSE <<Ev(options["onUpdate"], v)>>

\* A strategy calling options.onComplete().
CallOnComplete(options, valueTransition) ==
    IF options["onComplete"] = "defaultOnComplete"
    THEN DefaultOnComplete(valueTransition)
    ELSE <<Ev(options["onComplete"], 0)>>

\* The effect of a sequence of events on the MotionValue.
RECURSIVE ApplyLog(_, _)
ApplyLog(val, events) ==
    IF events = <<>> THEN val
    ELSE ApplyLog(IF Head(events).op = "value.set"
                  THEN ValueSet(val, Head(events).arg) ELSE val,
                  Tail(events))

FinalKeyframe(options) == options["keyframes"][Len(options["keyframes"])]

(***************************************************************************)
(* One invocation of the StartAnimation closure: the run it creates.       *)
(***************************************************************************)
SelectionInertiaFirst(valueName, val, instant, waapi, valueTransition, base) ==
    IF IsInertia(valueTransition)
    THEN [created |-> <<"inertia">>, merged |-> base, options |-> base]
    ELSE IF IsInstant(instant, valueTransition)
    THEN [created |-> <<"instant">>, merged |-> base, options |-> base]
    ELSE LET merged == WithDefaults(valueName, base, valueTransition)
             options == ConvertRepeatDelay(ConvertDuration(merged))
         IN IF canAccelerateAnimation(valueName, waapi, val, options)
            THEN [created |-> <<"accelerated">>, merged |-> merged,
                  options |-> EmptyRecord]
            ELSE [created |-> <<"animate">>, merged |-> merged,
                  options |-> options]

\* The strategy factories called, in order, and the options handed over.
Selection(valueName, val, instant, waapi, valueTransition, base) ==
    IF IsInstant(instant, valueTransition)
    THEN [created |-> <<"instant">>, merged |-> base, options |-> base]
    ELSE IF IsInertia(valueTransition)
    THEN [created |-> <<"inertia">>, merged |-> base, options |-> base]
    ELSE LET merged == WithDefaults(valueName, base, valueTransition)
             options == ConvertRepeatDelay(ConvertDuration(merged))
         IN IF canAccelerateAnimation(valueName, waapi, val, options)
            THEN [created |-> <<"accelerated">>, merged |-> merged,
                  options |-> EmptyRecord]
            ELSE [created |-> <<"animate">>, merged |-> merged,
                  options |-> options]

\* createInstantAnimation(options): the final keyframe is applied and the
\* completion signalled at once; the stop it returns does nothing.
createInstantAnimation(options, valueTransition) ==
    [status |-> "completed",
     reported |-> <<FinalKeyframe(options)>>,
     completions |-> 1,
     log |-> CallOnUpdate(options, FinalKeyframe(options), valueTransition)
                 \o CallOnComplete(options, valueTransition)]

\* inertia(options), animate(options), createAcceleratedAnimation(): the
\* strategy is running and has reported nothing yet.
StartedStrategy ==
    [status |-> "running", reported |-> <<>>, completions |-> 0, log |-> <<>>]

NewRun(h, val, instant, waapi) ==
    LET valueTransition == getValueTransition(h.transition, h.valueName)
        delay == Delay(valueTransition, h.transition)
        elapsed == Elapsed(h.transition, delay)
        keyframes == getKeyframes(val, h.valueName, h.target, valueTransition)
        base == BaseOptions(keyframes, val.velocity, elapsed, valueTransition)
        sel == Selection(h.valueName, val, instant, waapi, valueTransition, base)
    IN [valueName |-> h.valueName,
        transition |-> h.transition,
        owner |-> val.owner,
        instant |-> instant,
        waapi |-> waapi,
        valueTransition |-> valueTransition,
        delay |-> delay,
        base |-> base,
        merged |-> sel.merged,
        created |-> sel.created,
        options |-> sel.options]
       @@ (IF sel.created[1] = "instant"
           THEN createInstantAnimation(sel.options, valueTransition)
           ELSE StartedStrategy)

(***************************************************************************)
(* transform (src/utils/transform.ts).  A value is a record tagged with    *)
(* its kind.  A number of an input range is a whole number; a number of an *)
(* output range is held in hundredths (0.5 is 50, 1 is 100).               *)
(***************************************************************************)
MaxApplied == 2     \* calls of one mapping function returned by transform

Undefined == [kind |-> "undefined"]

Num(n) == [kind |-> "number", n |-> n]

Arr(items) == [kind |-> "array", items |-> items]

Obj(fields) == [kind |-> "object", fields |-> fields]

Thrown == [kind |-> "throw"]

\* args[k], counting from 0; undefined outside the arguments passed.
At(args, k) == IF k + 1 \in DOMAIN args THEN args[k + 1] ELSE Undefined

\* The own fields of an object, as a spread sees them: none for undefined.
FieldsOf(v) == IF v.kind = "object" THEN v.fields ELSE EmptyRecord

\* typeof v === "object" && v.mix
isCustomValueType(v) == v.kind = "object" /\ Has(v.fields, "mix")

\* isCustomValueType(v) ? v.mix : undefined
getMixer(v) == IF isCustomValueType(v) THEN v.fields["mix"] ELSE "undefined"

(***************************************************************************)
(* interpolate of the interpolation library: the mapping function for a    *)
(* pair of ranges, and what that function returns for an input.            *)
(***************************************************************************)
\* The two ranges have the same length.
LengthsAccepted(inputRange, outputRange) ==
    Len(inputRange.items) = Len(outputRange.items)

\* clamp defaults to true.
ClampOf(options) == IF Has(options, "clamp") THEN options["clamp"] ELSE TRUE

\* The custom mixer passed, or the default typed blend.
MixerOf(options) ==
    IF Has(options, "mixer") /\ options["mixer"] # "undefined"
    THEN options["mixer"] ELSE "default"

interpolate(inputRange, outputRange, options) ==
    IF ~LengthsAccepted(inputRange, outputRange) THEN Thrown
    ELSE [kind |-> "function",
          input |-> [k \in DOMAIN inputRange.items |-> inputRange.items[k].n],
          output |-> outputRange.items,
          clamp |-> ClampOf(options),
          mixer |-> MixerOf(options)]

\* With clamp, an input outside the range is moved to the nearest end.
Clamped(input, v) ==
    IF v < input[1] THEN input[1]
    ELSE IF v > input[Len(input)] THEN input[Len(input)]
    ELSE v

SegmentAlwaysFirst(input, v) == 1

\* The segment [input[i], input[i+1]] that brackets v: the first one by
\* index; the first or the last segment for an input beyond the ends.
SegmentOf(input, v) ==
    IF v <= input[1] THEN 1
    ELSE IF v >= input[Len(input)] THEN Len(input) - 1
    ELSE CHOOSE i \in 1..(Len(input) - 1) :
            /\ input[i] <= v /\ v < input[i + 1]
            /\ \A j \in 1..(i - 1) : ~(input[j] <= v /\ v < input[j + 1])

\* The position of v between from and to, in hundredths.
Progress(from, to, v) == ((v - from) * 100) \div (to - from)

\* The blend of two output elements at position t: linear for numbers under
\* the default blend, and otherwise whatever the mixer makes of them.
Mix(mixer, a, b, t) ==
    IF mixer = "default" /\ a.kind = "number" /\ b.kind = "number"
    THEN Num(a.n + ((b.n - a.n) * t) \div 100)
    ELSE [kind |-> "mixed", mixer |-> mixer, from |-> a, to |-> b, t |-> t]

\* interpolator(v)
Interpolated(f, v) ==
    LET w == IF f.clamp THEN Clamped(f.input, v) ELSE v
        i == SegmentOf(f.input, w)
    IN Mix(f.mixer, f.output[i], f.output[i + 1],
           Progress(f.input[i], f.input[i + 1], w))

\* f(v) for what transform returned: a throw has returned nothing to call.
Applied(f, v) == IF f.kind = "function" THEN Interpolated(f, v) ELSE Thrown

(***************************************************************************)
(* transform(...args), step by step.                                       *)
(***************************************************************************)
\* const useImmediate = !Array.isArray(args[0])
UseImmediate(args) == At(args, 0).kind # "array"

\* const argOffset = useImmediate ? 0 : -1
ArgOffset(useImmediate) == IF useImmediate THEN 0 ELSE -1

InterpolateOptionsMixerOnly(outputRange, options) ==
    "mixer" :> getMixer(At(outputRange.items, 0))

InterpolateOptionsDetectedLast(outputRange, options) ==
    Spread(FieldsOf(options), "mixer" :> getMixer(At(outputRange.items, 0)))

\* { mixer: getMixer(outputRange[0]), ...options }
InterpolateOptions(outputRange, options) ==
    Spread("mixer" :> getMixer(At(outputRange.items, 0)), FieldsOf(options))

\* What a call does: the options handed to interpolate, and what is returned.
transformWithOptionsWhenCurried(args) ==
    LET useImmediate == UseImmediate(args)
        argOffset == ArgOffset(useImmediate)
        inputValue == At(args, 0 + argOffset)
        inputRange == At(args, 1 + argOffset)
        outputRange == At(args, 2 + argOffset)
        options == IF useImmediate THEN Undefined ELSE At(args, 3 + argOffset)
        handed == InterpolateOptions(outputRange, options)
        interpolator == interpolate(inputRange, outputRange, handed)
    IN [handed |-> handed,
        returned |-> IF interpolator.kind = "throw" THEN Thrown
                     ELSE IF useImmediate
                     THEN Interpolated(interpolator, inputValue.n)
                     ELSE interpolator]

transformReturningUndefined(args) ==
    LET useImmediate == UseImmediate(args)
        argOffset == ArgOffset(useImmediate)
        inputValue == At(args, 0 + argOffset)
        inputRange == At(args, 1 + argOffset)
        outputRange == At(args, 2 + argOffset)
        options == At(args, 3 + argOffset)
        handed == InterpolateOptions(outputRange, options)
        interpolator == interpolate(inputRange, outputRange, handed)
    IN [handed |-> handed,
        returned |-> IF interpolator.kind = "throw" THEN Undefined
                     ELSE IF useImmediate
                     THEN Interpolated(interpolator, inputValue.n)
                     ELSE interpolator]

\* export function transform<T>(...args)
transform(args) ==
    LET useImmediate == UseImmediate(args)
        argOffset == ArgOffset(useImmediate)
        inputValue == At(args, 0 + argOffset)
        inputRange == At(args, 1 + argOffset)
        outputRange == At(args, 2 + argOffset)
        options == At(args, 3 + argOffset)
        handed == InterpolateOptions(outputRange, options)
        interpolator == interpolate(inputRange, outputRange, handed)
    IN [handed |-> handed,
        returned |-> IF interpolator.kind = "throw" THEN Thrown
                     ELSE IF useImmediate
                     THEN Interpolated(interpolator, inputValue.n)
                     ELSE interpolator]

\* The record of a call, and the state before any call.
Called(args) ==
    [args |-> args,
     handed |-> transform(args).handed,
     returned |-> transform(args).returned,
     applied |-> <<>>]

NoCall ==
    [args |-> <<>>, handed |-> EmptyRecord, returned |-> Undefined, applied |-> <<>>]

(***************************************************************************)
(* Inputs of transform.                                                    *)
(***************************************************************************)
InputValues == {-200, -150, -100, 0, 50, 100, 150, 200}

Nums(s) == [k \in DOMAIN s |-> Num(s[k])]

Custom(mix, n) == Obj(("mix" :> mix) @@ ("n" :> n))

Plain(n) == Obj("n" :> n)

\* Pairs of ranges: one segment, several segments, lengths that differ,
\* and output elements that are objects, with or without a mix of their own.
RangePairs ==
    {[input |-> Nums(<<0, 100>>), output |-> Nums(<<0, 100>>)],
     [input |-> Nums(<<-200, -100, 100, 200>>),
      output |-> Nums(<<0, 100, 100, 0>>)],
     [input |-> Nums(<<0, 100>>), output |-> Nums(<<0, 100, 0>>)],
     [input |-> Nums(<<0, 50, 100>>), output |-> Nums(<<0, 100>>)],
     [input |-> Nums(<<0, 100>>),
      output |-> <<Custom("mixOfFirst", 0), Custom("mixOfSecond", 100)>>],
     [input |-> Nums(<<0, 100>>),
      output |-> <<Plain(0), Custom("mixOfSecond", 100)>>]}

OptionFields == {"clamp", "mixer"}

OptionValues(f) ==
    IF f = "clamp" THEN BOOLEAN ELSE {"optionsMixer", "undefined"}

RECURSIVE OptionRecords(_)
OptionRecords(FS) ==
    IF FS = {} THEN {EmptyRecord}
    ELSE LET f == CHOOSE x \in FS : TRUE
             rest == OptionRecords(FS \ {f})
         IN rest \cup {Extend(r, f, v) : r \in rest, v \in OptionValues(f)}

\* The trailing options argument: omitted, or an object.
OptionArgs == {<<>>} \cup {<<Obj(o)>> : o \in OptionRecords(OptionFields)}

(***************************************************************************)
(* Actions.                                                                *)
(***************************************************************************)
Init ==
    /\ value \in {[current |-> 0, velocity |-> 0, owner |-> o] : o \in Owners}
    /\ instantAnimationState = FALSE
    /\ handle = <<>>
    /\ runs = <<>>
    /\ call = NoCall

\* createMotionValueAnimation(valueName, value, target, transition)
Create ==
    /\ handle = <<>>
    /\ \E n \in ValueNames :
         \E t \in Transitions(n) :
            handle' = <<[valueName |-> n, target |-> MaxValue, transition |-> t]>>
    /\ UNCHANGED <<call, value, instantAnimationState, runs>>

\* An external caller sets or clears the process-wide flag.
SetInstant ==
    /\ instantAnimationState' = ~instantAnimationState
    /\ UNCHANGED <<call, value, handle, runs>>

\* What the world held when a run was started, and the calls of its stop
\* handle so far: stopLen is the length of its log at the first call.
Observed ==
    [at |-> [instant |-> instantAnimationState,
             current |-> value.current,
             velocity |-> value.velocity],
     stops |-> 0,
     stopLen |-> -1]

InvokeWithFlagOfFirstRun(W) ==
    /\ Len(handle) = 1
    /\ \E waapi \in W :
         LET flag == IF runs = <<>> THEN instantAnimationState ELSE runs[1].instant
             r == NewRun(handle[1], value, flag, waapi)
         IN /\ runs' = Append(runs, r @@ Observed)
            /\ value' = ApplyLog(value, r.log)
    /\ UNCHANGED <<call, instantAnimationState, handle>>

\* The handle is invoked with the caller's completion callback, in an
\* environment whose probe answers one of W.
InvokeWith(W) ==
    /\ Len(handle) = 1
    /\ \E waapi \in W :
         LET r == NewRun(handle[1], value, instantAnimationState, waapi)
         IN /\ runs' = Append(runs, r @@ Observed)
            /\ value' = ApplyLog(value, r.log)
    /\ UNCHANGED <<call, instantAnimationState, handle>>

Invoke == InvokeWith(BOOLEAN)

\* The first invocation of the handle.  Spec follows one invocation, from
\* every transition, value name, owner, flag and environment of the inputs.
Start == runs = <<>> /\ Invoke

\* A later invocation of the same handle.
Restart == runs # <<>> /\ Len(runs) < MaxRuns /\ InvokeWith({TRUE})

Ticked(r) == r.status = "running" /\ r.created[1] \in {"inertia", "animate"}

\* Update ticks reported so far, and stop calls made so far, over all runs.
RECURSIVE TotalTicks(_)
TotalTicks(rs) ==
    IF rs = <<>> THEN 0
    ELSE (IF Head(rs).created[1] = "instant" THEN 0 ELSE Len(Head(rs).reported))
             + TotalTicks(Tail(rs))

RECURSIVE TotalStops(_)
TotalStops(rs) ==
    IF rs = <<>> THEN 0 ELSE Head(rs).stops + TotalStops(Tail(rs))

\* The strategy of run i reports an update value.
TickRun(i) ==
    /\ Ticked(runs[i])
    /\ TotalTicks(runs) < MaxTicks
    /\ \E v \in 1..MaxValue :
         LET ev == CallOnUpdate(runs[i].options, v, runs[i].valueTransition)
         IN /\ runs' = [runs EXCEPT ![i].reported = Append(@, v),
                                    ![i].log = @ \o ev]
            /\ value' = ApplyLog(value, ev)
    /\ UNCHANGED <<call, instantAnimationState, handle>>

Tick == \E i \in 1..Len(runs) : TickRun(i)

CompleteRunAndGoOn(i) ==
    /\ Ticked(runs[i])
    /\ LET ev == CallOnComplete(runs[i].options, runs[i].valueTransition)
       IN /\ runs' = [runs EXCEPT ![i].completions = @ + 1,
                                  ![i].log = @ \o ev]
          /\ value' = ApplyLog(value, ev)
    /\ UNCHANGED <<call, instantAnimationState, handle>>

\* The strategy of run i signals completion.
CompleteRun(i) ==
    /\ Ticked(runs[i])
    /\ LET ev == CallOnComplete(runs[i].options, runs[i].valueTransition)
       IN /\ runs' = [runs EXCEPT ![i].status = "completed",
                                  ![i].completions = @ + 1,
                                  ![i].log = @ \o ev]
          /\ value' = ApplyLog(value, ev)
    /\ UNCHANGED <<call, instantAnimationState, handle>>

Complete == \E i \in 1..Len(runs) : CompleteRun(i)

StopTargetsNone(i) == {}

StopTargetsLatest(i) == {Len(runs)}

\* return () => animation.stop(): the handle of run i stops the animation
\* that run created.
StopTargets(i) == {i}

\* The stop handle returned by run i is called.
StopRun(i) ==
    /\ TotalStops(runs) < MaxStops
    /\ runs' = [j \in DOMAIN runs |->
                 [runs[j] EXCEPT
                    !.stops = IF j = i THEN @ + 1 ELSE @,
                    !.stopLen = IF j = i /\ @ = -1 THEN Len(runs[j].log) ELSE @,
                    !.status = IF j \in StopTargets(i) /\ Ticked(runs[j])
                               THEN "cancelled" ELSE @]]
    /\ UNCHANGED <<call, value, instantAnimationState, handle>>

Stop == \E i \in 1..Len(runs) : StopRun(i)

Next == Create \/ SetInstant \/ Start \/ Tick \/ Complete \/ Stop

Spec == Init /\ [][Next]_vars

(***************************************************************************)
(* One handle invoked more than once: a few transitions for the value "x", *)
(* and up to MaxRuns invocations of the handle created from one of them.   *)
(***************************************************************************)
TransitionsOfType ==
    {t \in Transitions("x") :
        /\ t.root = EmptyRecord
        /\ \A n \in DOMAIN t.entries : DOMAIN t.entries[n] \subseteq {"type"}}

\* createMotionValueAnimation("x", value, target, transition)
CreateOfType ==
    /\ handle = <<>>
    /\ \E t \in TransitionsOfType :
         handle' = <<[valueName |-> "x", target |-> MaxValue, transition |-> t]>>
    /\ UNCHANGED <<call, value, instantAnimationState, runs>>

NextRuns ==
    CreateOfType \/ SetInstant \/ Start \/ Restart \/ Tick \/ Complete \/ Stop

\* The value is owned by an element without an update handler.
InitRuns == Init /\ value.owner = [present |-> TRUE, onUpdate |-> FALSE]

SpecRuns == InitRuns /\ [][NextRuns]_vars

(***************************************************************************)
(* One call of transform, in either shape, and the calls of the mapping     *)
(* function the curried shape returned.                                    *)
(***************************************************************************)
\* transform(inputValue, inputRange, outputRange, options?)
TransformImmediate ==
    /\ call = NoCall
    /\ \E v \in InputValues : \E p \in RangePairs : \E o \in OptionArgs :
         call' = Called(<<Num(v), Arr(p.input), Arr(p.output)>> \o o)
    /\ UNCHANGED <<value, instantAnimationState, handle, runs>>

\* transform(inputRange, outputRange, options?)
TransformCurried ==
    /\ call = NoCall
    /\ \E p \in RangePairs : \E o \in OptionArgs :
         call' = Called(<<Arr(p.input), Arr(p.output)>> \o o)
    /\ UNCHANGED <<value, instantAnimationState, handle, runs>>

\* The mapping function returned by the curried shape is called with v.
CallMapping ==
    /\ call.returned.kind = "function"
    /\ Len(call.applied) < MaxApplied
    /\ \E v \in InputValues :
         call' = [call EXCEPT !.applied =
                     Append(@, [input |-> v,
                                output |-> Interpolated(call.returned, v)])]
    /\ UNCHANGED <<value, instantAnimationState, handle, runs>>

NextTransform == TransformImmediate \/ TransformCurried \/ CallMapping

SpecTransform == Init /\ [][NextTransform]_vars

(***************************************************************************)
(* Reading a run's log.                                                    *)
(***************************************************************************)
OfOp(log, op) == SelectSeq(log, LAMBDA e : e.op = op)

Args(log, op) == [k \in 1..Len(OfOp(log, op)) |-> OfOp(log, op)[k].arg]

Count(log, op) == Len(OfOp(log, op))

RunIds == 1..Len(runs)

\* The value-specific entry the caller passed for the run's value, if any.
EntryOf(r) ==
    IF Has(r.transition.entries, r.valueName)
    THEN r.transition.entries[r.valueName] ELSE EmptyRecord

TypeIs(r, t) == Has(r.valueTransition, "type") /\ r.valueTransition["type"] = t

InstantCase(r) == r.instant \/ TypeIs(r, TypeFalse)

(***************************************************************************)
(* C1: every update value v the strategy reports causes exactly one        *)
(* value.set(v), and the transition's own onUpdate, if any, is called with *)
(* v as well -- also when the transition defines onUpdate.                 *)
(***************************************************************************)
C1_EveryUpdateSetsValue ==
    \A i \in RunIds :
        LET r == runs[i]
        IN /\ Args(r.log, "value.set") = r.reported
           /\ Has(r.valueTransition, "onUpdate")
                => Args(r.log, r.valueTransition["onUpdate"]) = r.reported

(***************************************************************************)
(* C2: when the strategy signals completion, the completion callback the   *)
(* caller passed to the start handle is invoked exactly once, and the      *)
(* transition's own onComplete, if any, exactly once too.                  *)
(***************************************************************************)
C2_CompletionReachesCaller ==
    \A i \in RunIds :
        LET r == runs[i]
        IN r.status = "completed" =>
             /\ Count(r.log, "callerOnComplete") = 1
             /\ Has(r.valueTransition, "onComplete")
                  => Count(r.log, r.valueTransition["onComplete"]) = 1

C4_ElapsedIsNetOfDelay ==
    \A i \in RunIds :
        LET r == runs[i]
            given == IF Has(r.transition.root, "elapsed")
                     THEN r.transition.root["elapsed"] ELSE 0
        IN Has(r.options, "elapsed")
             => r.options["elapsed"] = given - secondsToMilliseconds(r.delay)

(***************************************************************************)
(* C5: the delay is the value-specific delay whenever that field is        *)
(* present (an explicit 0 included), else the root delay, else 0.          *)
(***************************************************************************)
C5_ValueDelayWins ==
    \A i \in RunIds :
        LET r == runs[i]
        IN r.delay = IF Has(EntryOf(r), "delay") THEN EntryOf(r)["delay"]
                     ELSE IF Has(r.transition.root, "delay")
                          THEN r.transition.root["delay"]
                          ELSE 0

(***************************************************************************)
(* C6: on every branch a duration or repeatDelay given in seconds reaches  *)
(* the strategy in milliseconds, converted exactly once.                   *)
(***************************************************************************)
C6_TimesInMilliseconds ==
    \A i \in RunIds :
        LET r == runs[i]
        IN \A f \in {"duration", "repeatDelay"} :
             (Has(r.valueTransition, f) /\ Has(r.options, f))
                 => r.options[f] = secondsToMilliseconds(r.valueTransition[f])

(***************************************************************************)
(* C7: the accelerated strategy is selected only if the value name is      *)
(* accelerable, the environment supports it, the value has an owner, the   *)
(* owner has no update handler and no repeat is requested; when one of     *)
(* these fails the main-thread strategy is selected instead.               *)
(***************************************************************************)
Eligible(r) ==
    /\ r.valueName \in acceleratedValues
    /\ r.waapi
    /\ r.owner.present
    /\ ~r.owner.onUpdate
    /\ ~Truthy(r.valueTransition, "repeat")

C8_OneStrategyByPriority ==
    \A i \in RunIds :
        LET r == runs[i]
        IN /\ Len(r.created) = 1
           /\ InstantCase(r) => r.created[1] = "instant"
           /\ (~InstantCase(r) /\ TypeIs(r, "inertia")) => r.created[1] = "inertia"
           /\ (~InstantCase(r) /\ ~TypeIs(r, "inertia"))
                => r.created[1] \in {"accelerated", "animate"}

C8_Witness ==
    \E i \in RunIds :
        /\ runs[i].instant
        /\ TypeIs(runs[i], "inertia")
        /\ runs[i].created = <<"instant">>

(***************************************************************************)
(* C9: the accelerated strategy factory is never invoked; every start that *)
(* is neither instant nor inertia goes to the main-thread strategy.        *)
(***************************************************************************)
C9_NeverAccelerated ==
    \A i \in RunIds :
        /\ \A k \in 1..Len(runs[i].created) : runs[i].created[k] # "accelerated"
        /\ runs[i].created[1] \notin {"instant", "inertia"}
             => runs[i].created = <<"animate">>

C9_Witness ==
    \E i \in RunIds :
        LET r == runs[i]
        IN /\ r.valueName = "opacity"
           /\ r.waapi /\ r.owner.present /\ ~r.owner.onUpdate
           /\ ~Has(r.valueTransition, "repeat")
           /\ r.created = <<"animate">>
           /\ r.status = "completed"
           /\ Len(r.reported) >= 1

(***************************************************************************)
(* C10: the default heuristics are overlaid only when the effective        *)
(* transition is not defined, and every field present in the options       *)
(* before the overlay keeps its value.                                     *)
(***************************************************************************)
C10_DefaultsOverwriteNothing ==
    \A i \in RunIds :
        LET r == runs[i]
        IN /\ r.merged # r.base => ~isTransitionDefined(r.valueTransition)
           /\ \A f \in DOMAIN r.base :
                Has(r.merged, f) /\ r.merged[f] = r.base[f]

C10_Witness ==
    \E i \in RunIds :
        LET r == runs[i]
        IN /\ r.merged # r.base
           /\ Has(r.base, "repeat")
           /\ Has(r.base, "onUpdate")
           /\ r.merged["onUpdate"] = "userOnUpdate"
           /\ r.created = <<"animate">>

(***************************************************************************)
(* C11: the stop handle may be called any number of times on every branch: *)
(* after its first call no onUpdate and no onComplete of the run happens,  *)
(* later calls change nothing, onComplete never fires twice, and a stop    *)
(* after completion leaves the run completed.                              *)
(***************************************************************************)
C11_StopIsFinal ==
    \A i \in RunIds :
        LET r == runs[i]
        IN /\ r.stops >= 1 => Len(r.log) = r.stopLen
           /\ r.completions <= 1
           /\ Count(r.log, "callerOnComplete") <= 1
           /\ Count(r.log, "userOnComplete") <= 1
           /\ (r.stops >= 1 /\ r.completions = 1) => r.status = "completed"
           /\ (r.stops >= 1 /\ r.completions = 0) => r.status = "cancelled"

C11_Witness ==
    \E i \in RunIds :
        LET r == runs[i]
        IN /\ r.created = <<"animate">>
           /\ r.stops >= 2
           /\ r.reported # <<>>
           /\ r.stopLen = Len(r.log)
           /\ r.completions = 0
           /\ r.status = "cancelled"

(***************************************************************************)
(* C12: within one run the update callbacks are called in the order the    *)
(* strategy reports the values, the completion is signalled at most once,  *)
(* and no onUpdate and no value.set happens after the run's onComplete.    *)
(***************************************************************************)
UpdateOps == {"value.set", "userOnUpdate"}

CompletionOps == {"callerOnComplete", "userOnComplete"}

Made == call.args # <<>>

Immediate == Made /\ call.args[1].kind = "number"

Curried == Made /\ call.args[1].kind = "array"

Ranges == IF Immediate THEN Tail(call.args) ELSE call.args

PassedInput == [k \in DOMAIN Ranges[1].items |-> Ranges[1].items[k].n]

PassedOutput == Ranges[2].items

PassedOptions == IF Len(Ranges) >= 3 THEN Ranges[3].fields ELSE EmptyRecord

Evaluations ==
    IF Immediate
    THEN {[input |-> call.args[1].n, output |-> call.returned]}
    ELSE {call.applied[k] : k \in DOMAIN call.applied}

\* Equal lengths, numbers as output, and no mixer in play.
PlainNumbers ==
    /\ Made
    /\ Len(PassedInput) = Len(PassedOutput)
    /\ \A k \in DOMAIN PassedOutput : PassedOutput[k].kind = "number"
    /\ ~Has(PassedOptions, "mixer")

ClampAsked == ~Has(PassedOptions, "clamp") \/ PassedOptions["clamp"]

(***************************************************************************)
(* C14: the immediate call returns what the curried call, applied to the   *)
(* same input value, returns; a call whose first argument is a number      *)
(* returns a value (or throws), one whose first argument is an array       *)
(* returns a mapping function (or throws).                                 *)
(***************************************************************************)
C14_ShapesAgree ==
    /\ Immediate =>
         /\ call.returned.kind \in {"number", "mixed", "throw"}
         /\ call.returned
              = Applied(transform(Tail(call.args)).returned, call.args[1].n)
    /\ Curried =>
         /\ call.returned.kind \in {"function", "throw"}
         /\ \A k \in DOMAIN call.applied :
              call.applied[k].output
                = transform(<<Num(call.applied[k].input)>> \o call.args).returned

C14_Witness ==
    /\ Curried
    /\ Has(PassedOptions, "clamp") /\ ~PassedOptions["clamp"]
    /\ PassedInput = <<0, 100>>
    /\ Len(call.applied) = 2
    /\ call.applied[1] = [input |-> 150, output |-> Num(150)]
    /\ call.applied[2] = [input |-> 50, output |-> Num(50)]

(***************************************************************************)
(* C15: clamp is on when the options or their clamp are omitted.  With     *)
(* clamp on, an input below or above the input range gives the first or    *)
(* the last output element; with clamp off it gives the line of the        *)
(* nearest segment continued.  For [0,100] -> [0,1]: 50 gives 0.5, 150     *)
(* gives 1 when clamped (also by default) and 1.5 when not.                *)
(***************************************************************************)
C15_ClampDefaultsToTrue ==
    PlainNumbers =>
        \A e \in Evaluations :
            LET n == Len(PassedInput)
                in == PassedInput
                out == PassedOutput
            IN /\ (ClampAsked /\ e.input < in[1]) => e.output = out[1]
               /\ (ClampAsked /\ e.input > in[n]) => e.output = out[n]
               /\ (~ClampAsked /\ e.input < in[1]) =>
                    e.output = Num(out[1].n
                        - ((out[2].n - out[1].n) * (in[1] - e.input))
                              \div (in[2] - in[1]))
               /\ (~ClampAsked /\ e.input > in[n]) =>
                    e.output = Num(out[n].n
                        + ((out[n].n - out[n - 1].n) * (e.input - in[n]))
                              \div (in[n] - in[n - 1]))
               /\ (in = <<0, 100>> /\ out = Nums(<<0, 100>>)) =>
                    /\ e.input = 50 => e.output = Num(50)
                    /\ (e.input = 150 /\ ClampAsked) => e.output = Num(100)
                    /\ (e.input = 150 /\ ~ClampAsked) => e.output = Num(150)

C15_Witness ==
    /\ Immediate
    /\ PlainNumbers
    /\ PassedInput = <<0, 100>>
    /\ Len(call.args) = 4
    /\ PassedOptions = ("clamp" :> FALSE)
    /\ call.args[1] = Num(150)
    /\ call.returned = Num(150)

(***************************************************************************)
(* C16: an input inside the input range is mapped through the segment that *)
(* brackets it, linearly.  For [-200,-100,100,200] -> [0,1,1,0] the        *)
(* mapping gives 0.5 at -150, 1 at 0, 0.5 at 150, and at each element of   *)
(* the input range the output element at the same place.                   *)
(***************************************************************************)
C16_BracketingSegment ==
    PlainNumbers =>
        \A e \in Evaluations :
            LET in == PassedInput
                out == PassedOutput
            IN /\ \A i \in 1..(Len(in) - 1) :
                    (in[i] <= e.input /\ e.input <= in[i + 1]) =>
                        e.output = Num(out[i].n
                            + ((out[i + 1].n - out[i].n) * (e.input - in[i]))
                                  \div (in[i + 1] - in[i]))
               /\ \A k \in DOMAIN in : e.input = in[k] => e.output = out[k]
               /\ in = <<-200, -100, 100, 200>> =>
                    /\ e.input = -150 => e.output = Num(50)
                    /\ e.input = 0 => e.output = Num(100)
                    /\ e.input = 150 => e.output = Num(50)

C16_Witness ==
    /\ Curried
    /\ PlainNumbers
    /\ PassedInput = <<-200, -100, 100, 200>>
    /\ PassedOptions = EmptyRecord
    /\ Len(call.applied) = 2
    /\ call.applied[1] = [input |-> -150, output |-> Num(50)]
    /\ call.applied[2] = [input |-> 0, output |-> Num(100)]

(***************************************************************************)
(* C17: the mixer handed to interpolate is the mixer of the options when   *)
(* the options carry one; otherwise the mix of the first output element    *)
(* when that element is an object with a mix; otherwise none.  No output   *)
(* element but the first decides it.                                       *)
(***************************************************************************)
C17_MixerOfOptionsWins ==
    Made =>
        LET first == PassedOutput[1]
            own == first.kind = "object" /\ Has(first.fields, "mix")
        IN /\ Has(PassedOptions, "mixer")
                => call.handed["mixer"] = PassedOptions["mixer"]
           /\ (~Has(PassedOptions, "mixer") /\ own)
                => call.handed["mixer"] = first.fields["mix"]
           /\ (~Has(PassedOptions, "mixer") /\ ~own)
                => call.handed["mixer"] = "undefined"
           /\ \A e \in Evaluations :
                e.output.kind = "mixed" =>
                    e.output.mixer = IF call.handed["mixer"] = "undefined"
                                     THEN "default" ELSE call.handed["mixer"]

C17_Witness ==
    /\ Immediate
    /\ PassedOutput[1] = Custom("mixOfFirst", 0)
    /\ Has(PassedOptions, "mixer")
    /\ PassedOptions["mixer"] = "optionsMixer"
    /\ call.returned.kind = "mixed"
    /\ call.returned.mixer = "optionsMixer"

(***************************************************************************)
(* C18: with an input range and an output range of different lengths the   *)
(* call throws, in the immediate and in the curried shape: no value and no *)
(* mapping function is returned.                                           *)
(***************************************************************************)
C18_LengthMismatchThrows ==
    (Made /\ Len(PassedInput) # Len(PassedOutput)) =>
        /\ call.returned = Thrown
        /\ call.applied = <<>>

C18_Witness ==
    /\ Curried
    /\ Len(PassedInput) = 3
    /\ Len(PassedOutput) = 2
    /\ call.returned = Thrown

(***************************************************************************)
(* C19: creating the handle changes nothing: until the handle is invoked   *)
(* the value is untouched and no strategy exists.  Each invocation is a    *)
(* run of its own: its strategy is decided by the instant flag as it is at *)
(* that invocation, its options carry the value and the velocity as they   *)
(* are at that invocation, and a run is cancelled only by its own stop     *)
(* handle.                                                                 *)
(***************************************************************************)
C19_FreshRunPerStart ==
    /\ runs = <<>> => (value.current = 0 /\ value.velocity = 0)
    /\ \A i \in RunIds :
         LET r == runs[i]
         IN /\ Len(r.created) = 1
            /\ r.created[1] = "instant"
                 <=> (r.at.instant \/ TypeIs(r, TypeFalse))
            /\ r.base["velocity"] = r.at.velocity
            /\ r.base["keyframes"][1] = r.at.current
            /\ r.status = "cancelled" => r.stops >= 1

C19_Witness ==
    /\ Len(runs) = 2
    /\ ~runs[1].at.instant
    /\ runs[1].created = <<"animate">>
    /\ runs[1].status = "running"
    /\ runs[1].stops = 0
    /\ runs[2].at.instant
    /\ runs[2].created = <<"instant">>
    /\ runs[2].base["velocity"] # 0
    /\ runs[2].stops >= 1

(***************************************************************************)
(* C20: the core's own effect precedes the user's: each call of the        *)
(* transition's onUpdate with v comes right after value.set(v), and the    *)
(* transition's onComplete comes right after the caller's completion       *)
(* callback.                                                               *)
(***************************************************************************)
C20_CoreEffectFirst ==
    \A i \in RunIds :
        LET log == runs[i].log
        IN \A k \in 1..Len(log) :
             /\ log[k].op = "userOnUpdate"
                  => (k > 1 /\ log[k - 1] = Ev("value.set", log[k].arg))
             /\ log[k].op = "userOnComplete"
                  => (k > 1 /\ log[k - 1].op = "callerOnComplete")

====
